---- MODULE Spec2Model ----
(***************************************************************************)
(* The OTP auth adapter of parse-server-otp-auth-adapter (src/src/index.ts) *)
(* as a state machine: the OTP table of the Parse store, the clock, and a   *)
(* set of host requests, each running validateAuthData or challenge one     *)
(* await at a time.  A request is suspended only at its awaits (the store   *)
(* query, the store save/destroy, the sendEmail callback); the code between *)
(* two awaits runs in one step.                                             *)
(***************************************************************************)
EXTENDS Integers, Naturals, Sequences, FiniteSets, TLC

VARIABLES
    store,      \* the OTP table: objectId -> [email, otp, expiresAt, attempts, createdAt]
    nextId,     \* the objectId the store assigns to the next created object
    now,        \* the clock (new Date())
    cfg,        \* options: [maxAttempts, otpValidityInMs]
    slot,       \* per request slot: the running call, or the call that finished last
    inv,        \* objectId -> number of verify calls answered 'Invalid OTP' on that stored record
    lastWritten,\* email -> the otp of the latest challenge store write for it ("": none, or a record of it was deleted since)
    streak,     \* the running series of wrong sequential verifies after a fresh challenge
    schema,     \* the schema of class OTP in the store, or Absent
    setup,      \* the setupOtpTable call: where it is suspended, what it has done
    conf,       \* the validateOptions call: its argument and its outcome
    draw,       \* the draw of line 105: the value asked for and the code issued
    user        \* the Parse.User of the afterSave hook: its email, authData.otp, the pending event

vars ==
    <<store, nextId, now, cfg, slot, inv, lastWritten, streak, schema, setup, conf, draw, user>>

\* the state of the host-side operations (setup, configuration, the generator)
hostVars == <<schema, setup, conf, draw, user>>

(***************************** bounds **************************************)
MaxObjs == 2         \* a challenge starts only while fewer objects than this were created
MaxTime == 2         \* the clock stops here
MaxM == 2            \* options.maxAttempts ranges over 1..MaxM
MaxSetups == 2       \* setupOtpTable is called at most this many times
MaxSaves == 3        \* the afterSave hook stops after this many saves of its own

Procs == {1, 2}                    \* request slots that may run concurrently
SeqProcs == {1}                    \* the slot used when requests come one at a time
Validities == {1}                  \* values of options.otpValidityInMs
SampleCodes == {100000, 100001}    \* the codes used, as numbers
Emails == {"a@x.io", "b@x.io"}
RaceEmails == {"a@x.io"}

(************************ program constants ********************************)
OtpMin == 100000
OtpMax == 999999
Unset == -1          \* a field the object does not have (get() gives undefined)

\* crypto.randomInt(min, max): min inclusive, max exclusive
RandomInt(min, max) == min..(max - 1)

\* the draws of line 105 the model uses
OtpDraws == {n \in SampleCodes : n \in RandomInt(OtpMin, OtpMax)}

\* the strings a client may submit as authData.otp
SubmittedCodes == {ToString(n) : n \in SampleCodes}

NoObj == [id |-> 0, email |-> "", otp |-> "", expiresAt |-> 0, attempts |-> Unset]
NoCall == [kind |-> "none", email |-> "", otp |-> "", master |-> FALSE, expiresAt |-> 0, t0 |-> 0]
NoStreak == [n |-> -1, email |-> "", otp |-> "", expiresAt |-> 0]

R_SUCCESS == "success"
R_NOT_FOUND == "OTP not found"
R_EXPIRED == "OTP expired"
R_MAX == "Max attempts reached. OTP invalidated."
R_INVALID == "Invalid OTP"
R_STORE == "Object not found."
R_OK == "ok"
R_SEND == "sendEmail failed"

(**************************** the store ************************************)
\* query.equalTo("email", email)
QueryEmail(s, e) == {id \in DOMAIN s : s[id].email = e}

\* a query without the equalTo("email", email) filter: the newest object of the table
FirstDescendingAnyEmail(s, e) ==
    {id \in DOMAIN s : \A o \in DOMAIN s : s[o].createdAt <= s[id].createdAt}

\* query.descending("createdAt"); query.first(): the newest match.  createdAt is
\* the store's creation order: two objects are never created at the same instant.
FirstDescending(s, e) ==
    {id \in QueryEmail(s, e) : \A o \in QueryEmail(s, e) : s[o].createdAt <= s[id].createdAt}

\* query.first() with no order: the store may answer any match
FirstUnordered(s, e) == QueryEmail(s, e)

Fetch(s, id) ==
    [id |-> id, email |-> s[id].email, otp |-> s[id].otp,
     expiresAt |-> s[id].expiresAt, attempts |-> s[id].attempts]

\* otpObject.get("attempts") || 0
AttemptsOr0(a) == IF a = Unset \/ a = 0 THEN 0 ELSE a

\* a write whose rejection is swallowed: the call goes on as if it was applied
WriteOutcomesSwallowed(s, id) == {"ok"}

\* What the store answers to a destroy or an update of object id.  The code
\* passes no condition; for an object another request already deleted the
\* store rejects the write with 101 'Object not found.'
WriteOutcomes(s, id) == IF id \in DOMAIN s THEN {"ok"} ELSE {"missing"}

\* a destroy() that removes nothing
DestroyNothing(s, id) == s

\* otpObject.destroy()
Destroy(s, id) == [o \in DOMAIN s \ {id} |-> s[o]]

\* the counter is set on the local object and never saved
SaveAttemptsDropped(s, id, n) == s

\* otpObject.save() of an existing object after set("attempts", n): only the dirty field is written
SaveAttempts(s, id, n) == IF id \in DOMAIN s THEN [s EXCEPT ![id].attempts = n] ELSE s

\* an update that writes the new code and keeps the old expiry
SaveOtpCodeOnly(s, id, code, exp) ==
    IF id \in DOMAIN s THEN [s EXCEPT ![id].otp = code] ELSE s

\* an update that also starts the counter again
SaveOtpFresh(s, id, code, exp) ==
    IF id \in DOMAIN s
    THEN [s EXCEPT ![id].otp = code, ![id].expiresAt = exp, ![id].attempts = Unset]
    ELSE s

\* otpObject.save() of an existing object after set("otp"), set("expiresAt")
SaveOtp(s, id, code, exp) ==
    IF id \in DOMAIN s THEN [s EXCEPT ![id].otp = code, ![id].expiresAt = exp] ELSE s

\* a save that never reaches the store
SaveNewNothing(s, id, e, code, exp, t) == s

\* otpObject.save() of a new Parse.Object: email, otp, expiresAt set, attempts never set
SaveNew(s, id, e, code, exp, t) ==
    [o \in DOMAIN s \cup {id} |->
        IF o = id
        THEN [email |-> e, otp |-> code, expiresAt |-> exp, attempts |-> Unset, createdAt |-> id]
        ELSE s[o]]

\* an expiry that leaves out the current time
getExpirationTimeNoNow(t, otpValidityInMs) == otpValidityInMs

\* getExpirationTime: currentTime.getTime() + otpValidityInMs
getExpirationTime(t, otpValidityInMs) == t + otpValidityInMs

(********************** the tests of validateAuthData **********************)
\* the master flag ignored
IsMasterNever(master) == FALSE

\* line 56, 59: isMaster = !!request.master; the whole check is skipped for it
IsMaster(master) == master

\* the comparison of line 70 turned around
IsExpiredInverted(t, expiresAt) == t < expiresAt

\* line 70: new Date() > otpObject.get("expiresAt")
IsExpired(t, expiresAt) == t > expiresAt

\* line 75: otpObject.get("otp") !== otp
Mismatch(stored, submitted) == stored # submitted

\* the limit tested with > instead of >=
ExhaustedLate(attempts, maxAttempts) == attempts > maxAttempts

\* the limit never tested
ExhaustedNever(attempts, maxAttempts) == FALSE

\* line 79: attempts >= options.maxAttempts
Exhausted(attempts, maxAttempts) == attempts >= maxAttempts


(************************ bookkeeping of a call ****************************)
NoPrev == [email |-> "", otp |-> ""]

\* A request slot:
\*   pc       the await the call is suspended at, "idle", or "done"
\*   call     the arguments of the call
\*   obj      otpObject, the local copy of the fetched record
\*   pending  what the call answers once its store write is done
\*   result   the answer of the finished call
\*   tnow     the clock value read at line 70 (-1: not read)
\*   nops     store operations the call has issued
\*   sent     the calls of sendEmail made so far, each as <<email, otp>>
\*   reply    the objectId in the answer of a creating save that has not reached the call (0: none)
\*   pre      the store when the call started (kept while the call is alone)
\*   solo     no other request was in flight or has started since the call started
\*   prev     the slot's previous call, when it was a verify answered true
\*   failed   the slot's previous call, when it was a challenge whose sendEmail failed
\*            (prev and failed are kept for a verify with the same email and code,
\*            while it is alone)
\*   dup      another call has answered true on the record this call holds in obj
\*   lost     another call has removed the record this call holds in obj and
\*            answered 'OTP expired' or 'Max attempts reached'
\*   lw       lastWritten of the call's email when the call started alone ("" otherwise)
IdleSlot ==
    [pc |-> "idle", call |-> NoCall, obj |-> NoObj, pending |-> "none", result |-> "none",
     tnow |-> -1, nops |-> 0, sent |-> <<>>, pre |-> <<>>, solo |-> FALSE, prev |-> NoPrev,
     failed |-> NoPrev, dup |-> FALSE, lost |-> FALSE, lw |-> "", reply |-> 0]

Quiet(p) == \A q \in Procs \ {p} : slot[q].pc \in {"idle", "done"}

\* Only the call that finished last is remembered: a finished call is
\* forgotten when another request starts or finishes.
Forget(r) == IF r.pc = "done" THEN IdleSlot ELSE r

\* Another request starts: a running call is no longer alone.
Disturb(r) ==
    IF r.pc = "done" THEN IdleSlot
    ELSE [r EXCEPT !.solo = FALSE, !.pre = <<>>, !.lw = "", !.prev = NoPrev, !.failed = NoPrev]

\* The running series of wrong sequential verifies after a challenge that
\* created a fresh record: c finished with answer res, alone or not.
StreakAfter(c, res, alone, before) ==
    IF ~alone THEN NoStreak
    ELSE IF c.kind = "challenge"
         THEN IF QueryEmail(before, c.email) = {} /\ res \in {R_OK, R_SEND}
              THEN [n |-> 0, email |-> c.email, otp |-> c.otp, expiresAt |-> c.expiresAt]
              ELSE NoStreak
    ELSE IF /\ ~c.master
            /\ streak.n >= 0
            /\ streak.n <= cfg.maxAttempts
            /\ c.email = streak.email
            /\ c.otp # streak.otp
            /\ now <= streak.expiresAt
         THEN [streak EXCEPT !.n = @ + 1]
         ELSE NoStreak

\* Call c comes right after the finished call of slot p, alone, as a verify
\* with the email and the code of that call.
Repeats(p, c) ==
    /\ Quiet(p) /\ slot[p].pc = "done" /\ slot[p].solo
    /\ c.kind = "verify"
    /\ c.email = slot[p].call.email /\ c.otp = slot[p].call.otp

\* The slot of a call that starts in slot p with arguments c.
Begin(p, c) ==
    [IdleSlot EXCEPT
        !.call = c,
        !.solo = Quiet(p),
        !.pre = IF Quiet(p) THEN store ELSE <<>>,
        !.lw = IF Quiet(p) THEN lastWritten[c.email] ELSE "",
        !.prev = IF /\ Repeats(p, c)
                    /\ slot[p].call.kind = "verify" /\ ~slot[p].call.master
                    /\ slot[p].result = R_SUCCESS
                 THEN [email |-> slot[p].call.email, otp |-> slot[p].call.otp]
                 ELSE NoPrev,
        !.failed = IF /\ Repeats(p, c)
                      /\ slot[p].call.kind = "challenge"
                      /\ slot[p].result = R_SEND
                   THEN [email |-> slot[p].call.email, otp |-> slot[p].call.otp]
                   ELSE NoPrev]

\* Slot record q as another call, r, answers res: a running verify that holds
\* the record r has just removed is marked, by the answer r was given.
Witnessed(q, r, res) ==
    IF /\ q.pc \in {"v_check", "v_destroy", "v_save"}
       /\ r.call.kind = "verify" /\ r.obj.id # 0
       /\ q.obj.id = r.obj.id
    THEN IF res = R_SUCCESS THEN [q EXCEPT !.dup = TRUE]
         ELSE IF res \in {R_EXPIRED, R_MAX} THEN [q EXCEPT !.lost = TRUE]
         ELSE q
    ELSE q

\* The count of 'Invalid OTP' answers per stored record, after the call in
\* slot record r answers res and the store becomes s.
InvAfter(r, res, s) ==
    [i \in DOMAIN inv |->
        IF i \notin DOMAIN s THEN 0
        ELSE IF r.call.kind = "verify" /\ res = R_INVALID /\ r.obj.id = i THEN inv[i] + 1
        ELSE inv[i]]

\* The call in slot record r (of slot p) answers res; s is the store it leaves.
Finish(p, r, res, s) ==
    /\ slot' = [q \in Procs |->
                  IF q = p THEN [r EXCEPT !.pc = "done", !.result = res, !.pending = "none"]
                  ELSE Witnessed(Forget(slot[q]), r, res)]
    /\ inv' = InvAfter(r, res, s)
    /\ streak' = StreakAfter(r.call, res, r.solo, r.pre)

\* lastWritten after a verify deleted the record it holds
Deleted(o) == IF o.id # 0 THEN [lastWritten EXCEPT ![o.email] = ""] ELSE lastWritten

\* The call in slot p goes on as slot record r, suspended at the await `at`.
Suspend(p, r, at) ==
    /\ slot' = [slot EXCEPT ![p] = [r EXCEPT !.pc = at]]
    /\ UNCHANGED <<inv, streak>>

\* A call starts in slot p as slot record r, suspended at the await `at`.
Start(p, r, at) ==
    /\ slot' = [q \in Procs |-> IF q = p THEN [r EXCEPT !.pc = at] ELSE Disturb(slot[q])]
    /\ UNCHANGED <<inv, streak>>

(************************* validateAuthData ********************************)
\* lines 55-59, and 96 for a master request: no await is reached
VerifyStart(p, e, code, m) ==
    /\ slot[p].pc \in {"idle", "done"}
    /\ LET r == Begin(p, [kind |-> "verify", email |-> e, otp |-> code, master |-> m,
                          expiresAt |-> 0, t0 |-> 0])
       IN IF IsMaster(m)
          THEN Finish(p, r, R_SUCCESS, store)
          ELSE Start(p, r, "v_query")
    /\ UNCHANGED <<store, nextId, now, cfg, lastWritten>>
    /\ UNCHANGED hostVars

\* lines 60-68: the store answers query.first(); no object: 'OTP not found'
VerifyQuery(p) ==
    /\ slot[p].pc = "v_query"
    /\ LET r == [slot[p] EXCEPT !.nops = @ + 1]
       IN IF FirstDescending(store, r.call.email) = {}
          THEN Finish(p, r, R_NOT_FOUND, store)
          ELSE \E id \in FirstDescending(store, r.call.email) :
                  Suspend(p, [r EXCEPT !.obj = Fetch(store, id)], "v_check")
    /\ UNCHANGED <<store, nextId, now, cfg, lastWritten>>
    /\ UNCHANGED hostVars

\* lines 70-92 up to the await: the clock is read, the branch is chosen on the local copy
VerifyCheck(p) ==
    /\ slot[p].pc = "v_check"
    /\ LET r == [slot[p] EXCEPT !.tnow = now]
           o == r.obj
           attempts == AttemptsOr0(o.attempts) + 1
       IN IF IsExpired(now, o.expiresAt)
          THEN Suspend(p, [r EXCEPT !.pending = R_EXPIRED], "v_destroy")
          ELSE IF Mismatch(o.otp, r.call.otp)
          THEN IF Exhausted(attempts, cfg.maxAttempts)
               THEN Suspend(p, [r EXCEPT !.obj.attempts = attempts, !.pending = R_MAX],
                            "v_destroy")
               ELSE Suspend(p, [r EXCEPT !.obj.attempts = attempts, !.pending = R_INVALID],
                            "v_save")
          ELSE Suspend(p, [r EXCEPT !.pending = R_SUCCESS], "v_destroy")
    /\ UNCHANGED <<store, nextId, now, cfg, lastWritten>>
    /\ UNCHANGED hostVars

\* lines 71, 80, 92: the store executes otpObject.destroy(); then the throw or return true
VerifyDestroy(p) ==
    /\ slot[p].pc = "v_destroy"
    /\ LET r == [slot[p] EXCEPT !.nops = @ + 1]
       IN \E out \in WriteOutcomes(store, r.obj.id) :
             /\ store' = Destroy(store, r.obj.id)
             /\ Finish(p, r, IF out = "ok" THEN r.pending ELSE R_STORE,
                       Destroy(store, r.obj.id))
    /\ lastWritten' = Deleted(slot[p].obj)
    /\ UNCHANGED <<nextId, now, cfg>>
    /\ UNCHANGED hostVars

\* lines 86-87: the store executes otpObject.save(); then throw 'Invalid OTP'
VerifySave(p) ==
    /\ slot[p].pc = "v_save"
    /\ LET r == [slot[p] EXCEPT !.nops = @ + 1]
       IN \E out \in WriteOutcomes(store, r.obj.id) :
             /\ store' = SaveAttempts(store, r.obj.id, r.obj.attempts)
             /\ Finish(p, r, IF out = "ok" THEN r.pending ELSE R_STORE, store)
    /\ UNCHANGED <<nextId, now, cfg, lastWritten>>
    /\ UNCHANGED hostVars

(****************************** challenge **********************************)
\* lines 104-111: the code is drawn, the expiry computed, the query issued
ChallengeStart(p, e, n) ==
    /\ slot[p].pc \in {"idle", "done"}
    /\ nextId <= MaxObjs
    /\ Start(p, Begin(p, [kind |-> "challenge", email |-> e, otp |-> ToString(n),
                          master |-> FALSE,
                          expiresAt |-> getExpirationTime(now, cfg.otpValidityInMs),
                          t0 |-> now]),
             "c_query")
    /\ UNCHANGED <<store, nextId, now, cfg, lastWritten>>
    /\ UNCHANGED hostVars

\* lines 111-123: the store answers query.first(); the object is updated or built locally
ChallengeQuery(p) ==
    /\ slot[p].pc = "c_query"
    /\ LET r == [slot[p] EXCEPT !.nops = @ + 1]
           c == r.call
       IN IF FirstUnordered(store, c.email) = {}
          THEN Suspend(p, [r EXCEPT !.obj = [id |-> 0, email |-> c.email, otp |-> c.otp,
                                             expiresAt |-> c.expiresAt, attempts |-> Unset]],
                       "c_save")
          ELSE \E id \in FirstUnordered(store, c.email) :
                  Suspend(p, [r EXCEPT !.obj = [Fetch(store, id) EXCEPT
                                                   !.otp = c.otp, !.expiresAt = c.expiresAt]],
                          "c_save")
    /\ UNCHANGED <<store, nextId, now, cfg, lastWritten>>
    /\ UNCHANGED hostVars

\* line 125: the store executes otpObject.save()
ChallengeSave(p) ==
    /\ slot[p].pc = "c_save"
    /\ LET r == [slot[p] EXCEPT !.nops = @ + 1]
           o == r.obj
       IN IF o.id = 0
          THEN /\ store' = SaveNew(store, nextId, o.email, o.otp, o.expiresAt, now)
               /\ nextId' = nextId + 1
               /\ lastWritten' = [lastWritten EXCEPT ![o.email] = o.otp]
               /\ Suspend(p, [r EXCEPT !.reply = nextId], "c_send")
          ELSE /\ \E out \in WriteOutcomes(store, o.id) :
                    /\ store' = SaveOtp(store, o.id, o.otp, o.expiresAt)
                    /\ IF out = "ok"
                       THEN Suspend(p, r, "c_send")
                       ELSE Finish(p, r, R_STORE, store)
               /\ lastWritten' = IF o.id \in DOMAIN store
                                 THEN [lastWritten EXCEPT ![o.email] = o.otp]
                                 ELSE lastWritten
               /\ UNCHANGED nextId
    /\ UNCHANGED <<now, cfg>>
    /\ UNCHANGED hostVars

\* sendEmail called while the save is still awaited, and the save never waited for
ChallengeSendEarly(p) ==
    /\ slot[p].pc = "c_save"
    /\ Suspend(p, [slot[p] EXCEPT
                      !.sent = Append(@, <<slot[p].call.email, slot[p].call.otp>>)],
               "c_sent")
    /\ UNCHANGED <<store, nextId, now, cfg, lastWritten>>
    /\ UNCHANGED hostVars

\* lines 125-128: the answer of the save reaches the call (a created object
\* takes its objectId); options.sendEmail(email, otp) is called and awaited
ChallengeSend(p) ==
    /\ slot[p].pc = "c_send"
    /\ Suspend(p, [slot[p] EXCEPT
                      !.obj.id = IF slot[p].reply # 0 THEN slot[p].reply ELSE @,
                      !.reply = 0,
                      !.sent = Append(@, <<slot[p].call.email, slot[p].call.otp>>)],
               "c_sent")
    /\ UNCHANGED <<store, nextId, now, cfg, lastWritten>>
    /\ UNCHANGED hostVars

\* lines 128-131: sendEmail resolves or rejects; { ok: true } or the rejection
ChallengeReturn(p) ==
    /\ slot[p].pc = "c_sent"
    /\ \E delivered \in BOOLEAN :
          Finish(p, slot[p], IF delivered THEN R_OK ELSE R_SEND, store)
    /\ UNCHANGED <<store, nextId, now, cfg, lastWritten>>
    /\ UNCHANGED hostVars

(****************************** the clock **********************************)
Tick ==
    /\ now < MaxTime
    /\ now' = now + 1
    /\ UNCHANGED <<store, nextId, cfg, slot, inv, lastWritten, streak>>
    /\ UNCHANGED hostVars

(**************************** setupOtpTable ********************************)
\* the class OTP does not exist
Absent == [fields |-> {}, indexes |-> {}, clp |-> "absent"]

\* no schema recorded
Unseen == [fields |-> {}, indexes |-> {}, clp |-> "unseen"]

\* the schema lines 185-190 build: four fields, the email index, a CLP that
\* denies every client operation
OtpSchema ==
    [fields |-> {"email", "otp", "expiresAt", "attempts"},
     indexes |-> {"email_idx"},
     clp |-> "closed"]

\* a class OTP that exists with another shape
ForeignSchema == [fields |-> {"email"}, indexes |-> {}, clp |-> "open"]

\* the states the store's class OTP may be in before setupOtpTable runs
Schemas == {Absent, OtpSchema, ForeignSchema}

\* a lookup that reports every class missing
SchemaGetNever(s) == FALSE

\* line 178: schema.get() resolves when the class exists and rejects when it does not
SchemaGet(s) == s # Absent

\* line 192: schema.save() creates the class; the store refuses to create a
\* class that exists (the rejection is caught at line 197)
SchemaSave(s, new) == IF s = Absent THEN new ELSE s

\* setup:
\*   pc      "idle", the await the call is suspended at, or "done"
\*   runs    calls of setupOtpTable started so far
\*   writes  schema.save() calls issued by the current call
\*   made    schema.save() calls issued by all the calls so far
\*   pre     the schema when the current call started
\*   once    the schema the first call left (Unseen: no call has finished)
IdleSetup ==
    [pc |-> "idle", runs |-> 0, writes |-> 0, made |-> 0, pre |-> Unseen, once |-> Unseen]

\* line 175: new Parse.Schema(OTP_TABLE_NAME), up to the await of schema.get()
SetupStart ==
    /\ setup.pc \in {"idle", "done"}
    /\ setup.runs < MaxSetups
    /\ setup' = [setup EXCEPT !.pc = "s_get", !.runs = @ + 1, !.writes = 0, !.pre = schema]
    /\ UNCHANGED <<schema, conf, draw, user>>
    /\ UNCHANGED <<store, nextId, now, cfg, slot, inv, lastWritten, streak>>

\* lines 178-190: the store answers schema.get(); found: log and return; not
\* found: the fields, the index and the CLP are set on the local schema
SetupGet ==
    /\ setup.pc = "s_get"
    /\ setup' = IF SchemaGet(schema)
                THEN [setup EXCEPT !.pc = "done",
                                   !.once = IF @ = Unseen THEN schema ELSE @]
                ELSE [setup EXCEPT !.pc = "s_save"]
    /\ UNCHANGED <<schema, conf, draw, user>>
    /\ UNCHANGED <<store, nextId, now, cfg, slot, inv, lastWritten, streak>>

\* lines 192-204: the store executes schema.save(); the call resolves either way
SetupSave ==
    /\ setup.pc = "s_save"
    /\ schema' = SchemaSave(schema, OtpSchema)
    /\ setup' = [setup EXCEPT !.pc = "done", !.writes = @ + 1, !.made = @ + 1,
                              !.once = IF @ = Unseen THEN SchemaSave(schema, OtpSchema) ELSE @]
    /\ UNCHANGED <<conf, draw, user>>
    /\ UNCHANGED <<store, nextId, now, cfg, slot, inv, lastWritten, streak>>

(*************************** validateOptions *******************************)
\* A JavaScript value, as far as validateOptions looks at it: its typeof, and
\* for a number its value num/den (den > 0).
JsUndefined == [t |-> "undefined", num |-> 0, den |-> 1]
JsString == [t |-> "string", num |-> 0, den |-> 1]
JsFunction == [t |-> "function", num |-> 0, den |-> 1]
JsNumber(n, d) == [t |-> "number", num |-> n, den |-> d]

TypeOf(v) == v.t

\* v <= 0 for a number v
NotPositive(v) == v.num <= 0

\* the numbers tried: -1, 0, 1/2, 1, 3/2, 2
Numbers == {JsNumber(-1, 1), JsNumber(0, 1), JsNumber(1, 2), JsNumber(1, 1),
            JsNumber(3, 2), JsNumber(2, 1)}

\* the arguments of validateOptions tried: options.options present or not, its
\* three fields, and whether options.module is an OtpAdapter
OptionInputs ==
    [present : BOOLEAN,
     otpValidityInMs : Numbers \cup {JsUndefined, JsString},
     maxAttempts : Numbers \cup {JsUndefined, JsString},
     sendEmail : {JsFunction, JsUndefined, JsString},
     moduleIsAdapter : BOOLEAN]

E_OPTIONS == "Options object is required"
E_VALIDITY == "Invalid or missing otpValidityInMs"
E_MAX == "Invalid or missing maxAttempts"
E_SEND == "Invalid or missing sendEmail function"
E_MODULE == "Module must be an instance of OtpAdapter"
V_OK == "returned"

\* line 152 with the type test left out
MaxAttemptsRejectedNoType(v) == NotPositive(v)

\* line 152: typeof maxAttempts !== "number" || maxAttempts <= 0
MaxAttemptsRejected(v) == TypeOf(v) # "number" \/ NotPositive(v)

\* lines 146-147: typeof otpValidityInMs !== "number" || otpValidityInMs <= 0
ValidityRejected(v) == TypeOf(v) # "number" \/ NotPositive(v)

\* lines 138-164: the first failing test throws
validateOptions(o) ==
    IF ~o.present THEN E_OPTIONS
    ELSE IF ValidityRejected(o.otpValidityInMs) THEN E_VALIDITY
    ELSE IF MaxAttemptsRejected(o.maxAttempts) THEN E_MAX
    ELSE IF TypeOf(o.sendEmail) # "function" THEN E_SEND
    ELSE IF ~o.moduleIsAdapter THEN E_MODULE
    ELSE V_OK

\* the host calls validateOptions(conf.arg)
ValidateOptions ==
    /\ conf.outcome = "none"
    /\ conf' = [conf EXCEPT !.outcome = validateOptions(conf.arg)]
    /\ UNCHANGED <<schema, setup, draw, user>>
    /\ UNCHANGED <<store, nextId, now, cfg, slot, inv, lastWritten, streak>>

(************************** the code generator *****************************)
\* the values asked about: the two ends of the 6-digit range and their neighbours
EdgeCodes == {OtpMin - 1, OtpMin, OtpMin + 1, OtpMax - 1, OtpMax, OtpMax + 1}

NoDraw == [want |-> 0, drawn |-> FALSE, otp |-> ""]

\* line 105: crypto.randomInt(100000, 999999).toString() is asked for the value
\* draw.want; otp stays "" when the generator never gives that value
DrawCode ==
    /\ ~draw.drawn
    /\ draw' = [draw EXCEPT !.drawn = TRUE,
                            !.otp = IF draw.want \in RandomInt(OtpMin, OtpMax)
                                    THEN ToString(draw.want) ELSE ""]
    /\ UNCHANGED <<schema, setup, conf, user>>
    /\ UNCHANGED <<store, nextId, now, cfg, slot, inv, lastWritten, streak>>

(********************** updateAuthDataAfterSave ****************************)
\* user.getEmail() of a user that has no email (undefined, or the empty string)
NoEmail == ""

\* the values of user.getEmail(), and of authData.otp.id and authData.otp.email
UserEmails == Emails \cup {NoEmail}
Identities == Emails \cup {NoEmail, "old@x.io"}

NoAuth == [id |-> NoEmail, email |-> NoEmail]

\* the users the host may have just saved
\* user:
\*   email   user.getEmail()
\*   otp     authData.otp of the stored user: [id, email]
\*   event   "afterSave": the trigger is about to call the hook; "save": the
\*           user.save() of line 224 is in flight; "none": nothing is pending
\*   body    the authData.otp the save in flight carries
\*   saves   user.save() calls issued by the hook
\*   runs    calls of the hook
\*   first   email and authData.otp of the user the host saved
Users ==
    {[email |-> e, otp |-> [id |-> i, email |-> m], event |-> "afterSave", body |-> NoAuth,
      saves |-> 0, runs |-> 0, first |-> [email |-> e, otp |-> [id |-> i, email |-> m]]] :
        e \in UserEmails, i \in Identities, m \in Identities}

\* no user is being saved
NoUser ==
    [email |-> NoEmail, otp |-> NoAuth, event |-> "none", body |-> NoAuth,
     saves |-> 0, runs |-> 0, first |-> [email |-> NoEmail, otp |-> NoAuth]]

\* a test that looks at the email alone
NeedsUpdateAnyId(email, id) == email # NoEmail

\* line 221: email && authData.otp.id !== email
NeedsUpdate(email, id) == email # NoEmail /\ id # email

\* lines 222-223: authData.otp.id = email; authData.otp.email = email
Normalized(otp, email) == [otp EXCEPT !.id = email, !.email = email]

\* lines 217-225: the afterSave trigger calls the hook; the save is not awaited
UpdateAuthDataAfterSave ==
    /\ user.event = "afterSave"
    /\ user.saves < MaxSaves
    /\ user' = IF NeedsUpdate(user.email, user.otp.id)
               THEN [user EXCEPT !.event = "save", !.runs = @ + 1, !.saves = @ + 1,
                                 !.body = Normalized(user.otp, user.email)]
               ELSE [user EXCEPT !.event = "none", !.runs = @ + 1]
    /\ UNCHANGED <<schema, setup, conf, draw>>
    /\ UNCHANGED <<store, nextId, now, cfg, slot, inv, lastWritten, streak>>

\* line 224: the host executes user.save({ authData }, { useMasterKey: true })
\* and fires afterSave for the saved user
UserSave ==
    /\ user.event = "save"
    /\ user' = [user EXCEPT !.otp = user.body, !.body = NoAuth, !.event = "afterSave"]
    /\ UNCHANGED <<schema, setup, conf, draw>>
    /\ UNCHANGED <<store, nextId, now, cfg, slot, inv, lastWritten, streak>>

(*************************** specifications ********************************)
\* the OTP table and the requests before any call, maxAttempts taken from ms
OtpStart(ms) ==
    /\ store = <<>>
    /\ nextId = 1
    /\ now = 0
    /\ cfg \in [maxAttempts : ms, otpValidityInMs : Validities]
    /\ slot = [p \in Procs |-> IdleSlot]
    /\ inv = [i \in 1..(MaxObjs + Cardinality(Procs)) |-> 0]
    /\ lastWritten = [e \in Emails |-> ""]
    /\ streak = NoStreak

OtpInit == OtpStart(1..MaxM)

\* the class OTP is set up; no setup, configuration or generator call is running
HostQuiet ==
    /\ schema = OtpSchema
    /\ setup = IdleSetup
    /\ conf = [arg |-> [present |-> FALSE, otpValidityInMs |-> JsUndefined,
                        maxAttempts |-> JsUndefined, sendEmail |-> JsUndefined,
                        moduleIsAdapter |-> FALSE],
               outcome |-> "none"]
    /\ draw = NoDraw

\* the host-side state of an adapter in service: no host-side call is running
HostReady == HostQuiet /\ user = NoUser

Init == OtpInit /\ HostReady

\* an adapter in service after one challenge was served at time 0: its record
\* is in the store; maxAttempts = MaxM + 1 lets a record be counted on twice
IssuedInit ==
    /\ cfg \in [maxAttempts : {MaxM + 1}, otpValidityInMs : Validities]
    /\ store \in {SaveNew(<<>>, 1, e, ToString(OtpMin),
                          getExpirationTime(0, cfg.otpValidityInMs), 0) : e \in RaceEmails}
    /\ nextId = 2
    /\ now = 0
    /\ slot = [p \in Procs |-> IdleSlot]
    /\ inv = [i \in 1..(MaxObjs + Cardinality(Procs)) |-> 0]
    /\ lastWritten = [e \in Emails |-> IF e \in RaceEmails THEN ToString(OtpMin) ELSE ""]
    /\ streak = NoStreak
    /\ HostReady

\* the host at startup: any state of the class OTP, any configuration
HostInit ==
    /\ OtpInit
    /\ schema \in Schemas
    /\ setup = IdleSetup
    /\ conf \in [arg : OptionInputs, outcome : {"none"}]
    /\ draw \in [want : EdgeCodes, drawn : {FALSE}, otp : {""}]
    /\ user = NoUser

\* the host has saved a user: the afterSave trigger is pending
HookInit == OtpInit /\ HostQuiet /\ user \in Users

\* a step of a validateAuthData call in slot p
VerifyStep(p, emails, masters) ==
    \/ \E e \in emails, code \in SubmittedCodes, m \in masters : VerifyStart(p, e, code, m)
    \/ VerifyQuery(p)
    \/ VerifyCheck(p)
    \/ VerifyDestroy(p)
    \/ VerifySave(p)

\* a step of a challenge call in slot p
ChallengeStep(p, emails) ==
    \/ \E e \in emails, n \in OtpDraws : ChallengeStart(p, e, n)
    \/ ChallengeQuery(p)
    \/ ChallengeSave(p)
    \/ ChallengeSend(p)
    \/ ChallengeReturn(p)

Step(p, emails, masters) == VerifyStep(p, emails, masters) \/ ChallengeStep(p, emails)

\* concurrent client requests for one email
Next == Tick \/ \E p \in Procs : Step(p, RaceEmails, {FALSE})

Spec == Init /\ [][Next]_vars

\* one request at a time, for any email, from clients and from master-key callers
SeqNext == Tick \/ \E p \in SeqProcs : Step(p, Emails, BOOLEAN)

SeqSpec == Init /\ [][SeqNext]_vars

\* concurrent client verifies on the record of one challenge
GuessNext == Tick \/ \E p \in Procs : VerifyStep(p, RaceEmails, {FALSE})

GuessSpec == IssuedInit /\ [][GuessNext]_vars

\* the host-side operations: setupOtpTable, validateOptions, the generator
HostNext == SetupStart \/ SetupGet \/ SetupSave \/ ValidateOptions \/ DrawCode

HostSpec == HostInit /\ [][HostNext]_vars

\* the afterSave trigger and the saves of the hook
HookNext == UpdateAuthDataAfterSave \/ UserSave

HookSpec == HookInit /\ [][HookNext]_vars

(******************************* claims ************************************)
\* slot p holds a finished client (non-master) verify
VerifyDone(p) ==
    /\ slot[p].pc = "done"
    /\ slot[p].call.kind = "verify"
    /\ ~slot[p].call.master

\* slot p holds a finished challenge
ChallengeDone(p) == slot[p].pc = "done" /\ slot[p].call.kind = "challenge"

\* slot p holds a finished call that ran with no other request in flight
Alone(p) == slot[p].pc = "done" /\ slot[p].solo

\* the attempts counter of a stored record, as a number
Count(a) == IF a = Unset THEN 0 ELSE a

\* store s with object id removed and nothing else changed
Without(s, id) == [o \in DOMAIN s \ {id} |-> s[o]]

\* the arguments, the local state and the snapshot of the call in slot p
Arg(p) == slot[p].call
Before(p) == slot[p].pre
Read(p) == FirstDescending(slot[p].pre, slot[p].call.email)

\* the error kinds of the spec: both 'OTP not found' and the store's own
\* 'Object not found.' carry the code OBJECT_NOT_FOUND
NotFoundKind == {R_NOT_FOUND, R_STORE}

\* C1: of the verify calls that submit the stored code of one record
\* concurrently, exactly one is answered true.  A call that holds a record on
\* which another call was already answered true fails with NotFound or
\* Expired; a call that read the clock no later than expiresAt, and whose
\* record no call removed as expired or exhausted, is answered true exactly
\* when no other call was answered true on the record before it.
C1_OneSuccess ==
    \A p \in Procs :
        (VerifyDone(p) /\ slot[p].obj.id # 0 /\ slot[p].obj.otp = slot[p].call.otp)
            => /\ slot[p].dup => slot[p].result \in NotFoundKind \cup {R_EXPIRED}
               /\ (slot[p].tnow <= slot[p].obj.expiresAt /\ ~slot[p].lost)
                      => (slot[p].result = R_SUCCESS <=> ~slot[p].dup)

\* the second of two concurrent verifies with the stored code, both before
\* expiry, has failed after the first was answered true
C1_Reached ==
    \E p \in Procs :
        /\ VerifyDone(p) /\ slot[p].dup
        /\ slot[p].obj.id # 0 /\ slot[p].obj.otp = slot[p].call.otp
        /\ slot[p].tnow <= slot[p].obj.expiresAt
        /\ slot[p].result \in NotFoundKind

\* C2: no increment is lost: the attempts stored in a record equal the number
\* of 'Invalid OTP' answers given on it (a record starts with no attempts).
C2_NoLostIncrement ==
    \A id \in DOMAIN store : Count(store[id].attempts) = inv[id]

\* C7: once the challenge calls for an email have completed, a verify that
\* runs alone is answered true only for the code that was written last, and
\* is answered true for it when the record it finds has not expired.
C7_LastWriteWins ==
    \A p \in Procs :
        (VerifyDone(p) /\ Alone(p) /\ slot[p].lw # "")
            => /\ slot[p].result = R_SUCCESS => slot[p].call.otp = slot[p].lw
               /\ (slot[p].call.otp = slot[p].lw /\ slot[p].obj.id # 0
                   /\ ~IsExpired(slot[p].tnow, slot[p].obj.expiresAt))
                      => slot[p].result = R_SUCCESS


\* C3: single use.  A client verify that submits the stored code and reads the
\* clock no later than expiresAt is answered true and removes the record (and
\* nothing else); the same verify repeated right after it is answered
\* 'OTP not found'.
C3_SingleUse ==
    \A p \in Procs :
        /\ (VerifyDone(p) /\ Alone(p)) =>
              \A id \in Read(p) :
                  (Before(p)[id].otp = Arg(p).otp /\ slot[p].tnow <= Before(p)[id].expiresAt)
                      => slot[p].result = R_SUCCESS /\ store = Without(Before(p), id)
        /\ (VerifyDone(p) /\ Alone(p) /\ slot[p].prev # NoPrev
              /\ slot[p].prev = [email |-> Arg(p).email, otp |-> Arg(p).otp])
              => slot[p].result = R_NOT_FOUND

C3_Reached ==
    \E p \in Procs :
        /\ VerifyDone(p) /\ Alone(p)
        /\ slot[p].prev = [email |-> Arg(p).email, otp |-> Arg(p).otp]
        /\ slot[p].result = R_NOT_FOUND

\* C4: after a challenge that created a fresh record, the j-th of a series of
\* sequential wrong verifies for that email (before expiry, nothing else in
\* between) is answered 'Invalid OTP' while j < maxAttempts, 'Max attempts
\* reached' with the record deleted when j = maxAttempts, and 'OTP not found'
\* when j = maxAttempts + 1.
C4_AttemptLimit ==
    \A p \in Procs :
        (VerifyDone(p) /\ Alone(p) /\ streak.n >= 1) =>
            /\ streak.n < cfg.maxAttempts =>
                  slot[p].result = R_INVALID /\ QueryEmail(store, streak.email) # {}
            /\ streak.n = cfg.maxAttempts =>
                  slot[p].result = R_MAX /\ QueryEmail(store, streak.email) = {}
            /\ streak.n = cfg.maxAttempts + 1 => slot[p].result = R_NOT_FOUND

C4_Reached ==
    \E p \in Procs :
        /\ VerifyDone(p) /\ Alone(p)
        /\ cfg.maxAttempts >= 2
        /\ streak.n = cfg.maxAttempts + 1
        /\ slot[p].result = R_NOT_FOUND

\* C5: a verify with a wrong code on an unexpired record whose attempts + 1 is
\* below maxAttempts is answered 'Invalid OTP' and changes nothing in the
\* store but the attempts of that record, which rise by exactly 1.
C5_WrongCodeCounts ==
    \A p \in Procs :
        (VerifyDone(p) /\ Alone(p)) =>
            \A id \in Read(p) :
                (/\ slot[p].tnow <= Before(p)[id].expiresAt
                 /\ Before(p)[id].otp # Arg(p).otp
                 /\ Count(Before(p)[id].attempts) + 1 < cfg.maxAttempts)
                    => /\ slot[p].result = R_INVALID
                       /\ store = [Before(p) EXCEPT
                                      ![id].attempts = Count(Before(p)[id].attempts) + 1]

C5_Reached ==
    \E p \in Procs :
        /\ VerifyDone(p) /\ Alone(p)
        /\ slot[p].result = R_INVALID
        /\ \E id \in Read(p) : id \in DOMAIN store /\ store[id].attempts = 1

\* C6: the expiry check comes first.  A verify that reads the clock after
\* expiresAt is answered 'OTP expired' and removes the record (and nothing
\* else), whether the submitted code is the stored one or not and whatever
\* the attempts are.
C6_ExpiryFirst ==
    \A p \in Procs :
        (VerifyDone(p) /\ Alone(p)) =>
            \A id \in Read(p) :
                slot[p].tnow > Before(p)[id].expiresAt
                    => slot[p].result = R_EXPIRED /\ store = Without(Before(p), id)

C6_Reached ==
    \E p \in Procs :
        /\ VerifyDone(p) /\ Alone(p)
        /\ slot[p].result = R_EXPIRED
        /\ \E id \in Read(p) : Before(p)[id].otp = Arg(p).otp

\* C8: a challenge for an email with no record adds exactly one record to the
\* store, for that email, with the drawn code, no attempts counted, and
\* expiresAt = (the time of the call) + otpValidityInMs.
C8_FreshRecord ==
    \A p \in Procs :
        (ChallengeDone(p) /\ Alone(p) /\ QueryEmail(Before(p), Arg(p).email) = {}) =>
            \E id \in DOMAIN store \ DOMAIN Before(p) :
                /\ DOMAIN store = DOMAIN Before(p) \cup {id}
                /\ \A o \in DOMAIN Before(p) : store[o] = Before(p)[o]
                /\ store[id].email = Arg(p).email
                /\ store[id].otp = Arg(p).otp
                /\ Count(store[id].attempts) = 0
                /\ store[id].expiresAt = Arg(p).t0 + cfg.otpValidityInMs

C8_Reached ==
    \E p \in Procs :
        /\ ChallengeDone(p) /\ Alone(p)
        /\ QueryEmail(Before(p), Arg(p).email) = {}
        /\ Arg(p).t0 > 0
        /\ \E id \in DOMAIN store : store[id].email = Arg(p).email

\* C9: with requests coming one at a time the store never holds two records
\* for one email, and after a challenge it holds exactly one record for the
\* email, carrying the code and the expiry of that challenge.
C9_OneRecord ==
    /\ \A e \in Emails : Cardinality(QueryEmail(store, e)) <= 1
    /\ \A p \in Procs :
          (ChallengeDone(p) /\ Alone(p)) =>
              \E id \in DOMAIN store :
                  /\ QueryEmail(store, Arg(p).email) = {id}
                  /\ store[id].otp = Arg(p).otp
                  /\ store[id].expiresAt = Arg(p).t0 + cfg.otpValidityInMs

C9_Reached ==
    \E p \in Procs :
        /\ ChallengeDone(p) /\ Alone(p)
        /\ \E id \in QueryEmail(Before(p), Arg(p).email) :
              /\ id \in DOMAIN store
              /\ Before(p)[id].otp # store[id].otp
              /\ Before(p)[id].expiresAt # store[id].expiresAt

\* C10: a master request is answered true for any email and code without any
\* store operation; a client request is answered true only after a record
\* holding the submitted code was read and found unexpired.
C10_MasterBypass ==
    \A p \in Procs :
        /\ (slot[p].pc = "done" /\ Arg(p).kind = "verify" /\ Arg(p).master) =>
              /\ slot[p].result = R_SUCCESS
              /\ slot[p].nops = 0
              /\ slot[p].obj = NoObj
              /\ Alone(p) => store = Before(p)
        /\ (VerifyDone(p) /\ slot[p].result = R_SUCCESS) =>
              /\ slot[p].nops > 0
              /\ slot[p].obj.id # 0
              /\ slot[p].obj.email = Arg(p).email
              /\ slot[p].obj.otp = Arg(p).otp
              /\ slot[p].tnow >= 0
              /\ slot[p].tnow <= slot[p].obj.expiresAt
              /\ Alone(p) => /\ slot[p].obj.id \in Read(p)
                             /\ Before(p)[slot[p].obj.id].otp = Arg(p).otp

C10_Reached ==
    \E p \in Procs :
        /\ slot[p].pc = "done" /\ Arg(p).kind = "verify" /\ Arg(p).master
        /\ slot[p].result = R_SUCCESS
        /\ \E id \in QueryEmail(store, Arg(p).email) : store[id].otp # Arg(p).otp

\* the fields of a configuration that are missing or malformed as the
\* specification defines it: the validity a strictly positive number, the
\* maximum of attempts a strictly positive integer, sendEmail a function,
\* module an OtpAdapter
Malformed(o) ==
    {f \in {"otpValidityInMs"} :
        ~(o.otpValidityInMs.t = "number" /\ o.otpValidityInMs.num > 0)}
    \cup {f \in {"maxAttempts"} :
        ~(/\ o.maxAttempts.t = "number" /\ o.maxAttempts.num > 0
          /\ o.maxAttempts.num % o.maxAttempts.den = 0)}
    \cup {f \in {"sendEmail"} : o.sendEmail.t # "function"}
    \cup {f \in {"module"} : ~o.moduleIsAdapter}

\* the error that names a field
ErrorOf(f) ==
    CASE f = "otpValidityInMs" -> E_VALIDITY
      [] f = "maxAttempts" -> E_MAX
      [] f = "sendEmail" -> E_SEND
      [] f = "module" -> E_MODULE

\* C12: validateOptions returns without error for every valid configuration,
\* and for a configuration with exactly one missing or malformed field it
\* raises the error that names that field.
C12_ValidateOptions ==
    (conf.outcome # "none" /\ conf.arg.present) =>
        /\ Malformed(conf.arg) = {} => conf.outcome = V_OK
        /\ \A f \in Malformed(conf.arg) :
              Malformed(conf.arg) = {f} => conf.outcome = ErrorOf(f)

\* C13: setupOtpTable is idempotent.  A finished call has saved the schema
\* once when the class was absent and never when it existed; an existing
\* schema is left as it was, and the second call leaves the schema the first
\* call left.
C13_SetupIdempotent ==
    setup.pc = "done" =>
        /\ setup.pre = Absent => setup.writes = 1 /\ schema = OtpSchema
        /\ setup.pre # Absent => setup.writes = 0 /\ schema = setup.pre
        /\ setup.runs >= 2 => schema = setup.once

C13_Reached ==
    /\ setup.pc = "done"
    /\ setup.runs = 2
    /\ setup.writes = 0
    /\ setup.made = 1
    /\ setup.once = OtpSchema
    /\ schema = OtpSchema

\* C14: every code issued is a string of 6 decimal digits with a value in
\* [100000, 999999], and every value of that range is issued when asked for.
C14_FullRange ==
    draw.drawn =>
        /\ draw.otp # "" => Len(draw.otp) = 6 /\ draw.want \in OtpMin..OtpMax
        /\ draw.want \in OtpMin..OtpMax => draw.otp = ToString(draw.want)

\* C11: when sendEmail fails, challenge fails with that error and the record
\* it has just written stays in the store as written (nothing else changed);
\* a verify with that code that comes next and reads the clock no later than
\* expiresAt is answered true.
C11_DeliveryFailure ==
    \A p \in Procs :
        /\ (ChallengeDone(p) /\ slot[p].sent # <<>>) => slot[p].result \in {R_OK, R_SEND}
        /\ (ChallengeDone(p) /\ Alone(p) /\ slot[p].result = R_SEND) =>
              \E id \in QueryEmail(store, Arg(p).email) :
                  /\ store[id].otp = Arg(p).otp
                  /\ store[id].expiresAt = Arg(p).expiresAt
                  /\ DOMAIN store = DOMAIN Before(p) \cup {id}
                  /\ \A o \in DOMAIN Before(p) \ {id} : store[o] = Before(p)[o]
        /\ (VerifyDone(p) /\ Alone(p) /\ slot[p].failed # NoPrev
              /\ slot[p].failed = [email |-> Arg(p).email, otp |-> Arg(p).otp]) =>
              /\ Read(p) # {}
              /\ \A id \in Read(p) :
                    slot[p].tnow <= Before(p)[id].expiresAt
                        => slot[p].result = R_SUCCESS /\ store = Without(Before(p), id)

C11_Reached ==
    \E p \in Procs :
        /\ VerifyDone(p) /\ Alone(p)
        /\ slot[p].failed = [email |-> Arg(p).email, otp |-> Arg(p).otp]
        /\ slot[p].result = R_SUCCESS

\* C15: a verify for an email that has no record is answered 'OTP not found'
\* after its query alone, and the store is left as it was.
C15_NotFoundNoChange ==
    \A p \in Procs :
        (VerifyDone(p) /\ Alone(p) /\ QueryEmail(Before(p), Arg(p).email) = {}) =>
            /\ slot[p].result = R_NOT_FOUND
            /\ slot[p].nops = 1
            /\ store = Before(p)

C15_Reached ==
    \E p \in Procs :
        /\ VerifyDone(p) /\ Alone(p)
        /\ QueryEmail(Before(p), Arg(p).email) = {}
        /\ Before(p) # <<>>
        /\ slot[p].result = R_NOT_FOUND

\* C16: a challenge for an email that has a record changes the code and the
\* expiry of that record and nothing else, its attempts included; and however
\* challenges and wrong verifies follow each other, a record is never
\* answered 'Invalid OTP' more than maxAttempts - 1 times.
C16_ChallengeKeepsAttempts ==
    /\ \A p \in Procs :
          (ChallengeDone(p) /\ Alone(p)) =>
              \A id \in QueryEmail(Before(p), Arg(p).email) :
                  /\ id \in DOMAIN store
                  /\ store = [Before(p) EXCEPT ![id].otp = Arg(p).otp,
                                               ![id].expiresAt = Arg(p).expiresAt]
                  /\ store[id].attempts = Before(p)[id].attempts
    /\ \A id \in DOMAIN store : inv[id] <= cfg.maxAttempts - 1

C16_Reached ==
    \E p \in Procs :
        /\ ChallengeDone(p) /\ Alone(p)
        /\ \E id \in QueryEmail(Before(p), Arg(p).email) :
              /\ id \in DOMAIN store
              /\ Before(p)[id].attempts = 1
              /\ inv[id] = 1
              /\ store[id].otp # Before(p)[id].otp

\* C17: the attempts of a stored record never decrease from one state to the
\* next while the record exists.
C17_AttemptsMonotone ==
    [][\A id \in DOMAIN store \cap DOMAIN store' :
          Count(store'[id].attempts) >= Count(store[id].attempts)]_vars

\* C18: the store never holds two records for one email, whatever the
\* interleaving of the challenge calls.
C18_OnePerEmail ==
    \A e \in Emails : \A i, j \in QueryEmail(store, e) : i = j

\* C19: a verify that matched or counted out a code deletes the record only
\* while the record still holds that code.
C19_DeletesComparedCode ==
    [][\A p \in Procs :
          (/\ slot[p].pc = "v_destroy"
           /\ slot[p].pending \in {R_SUCCESS, R_MAX}
           /\ slot'[p].pc = "done"
           /\ slot[p].obj.id \in DOMAIN store
           /\ slot[p].obj.id \notin DOMAIN store')
              => store[slot[p].obj.id].otp = slot[p].obj.otp]_vars

\* C20: every stored record has attempts strictly below maxAttempts.
C20_BelowLimit ==
    \A id \in DOMAIN store : Count(store[id].attempts) < cfg.maxAttempts

C20_Reached ==
    \E p \in Procs :
        /\ VerifyDone(p) /\ ~Alone(p)
        /\ slot[p].result = R_INVALID
        /\ \E id \in DOMAIN store :
              /\ id = slot[p].obj.id
              /\ store[id].attempts = cfg.maxAttempts - 1

\* C21: in a challenge call sendEmail is called at most once, only after the
\* store has executed the save, with the email and the code of the object
\* saved; a call whose save the store rejected has not called sendEmail;
\* { ok: true } is answered only after the save and one sendEmail call.  After
\* a call that ran alone the store holds the code handed to sendEmail.
C21_SendAfterSave ==
    \A p \in Procs :
        slot[p].call.kind = "challenge" =>
            /\ Len(slot[p].sent) <= 1
            /\ slot[p].sent # <<>> =>
                  /\ slot[p].pc \in {"c_sent", "done"}
                  /\ slot[p].nops = 2
                  /\ slot[p].pc = "done" => slot[p].result \in {R_OK, R_SEND}
                  /\ slot[p].sent[1] = <<slot[p].obj.email, slot[p].obj.otp>>
                  /\ slot[p].sent[1][1] = Arg(p).email
                  /\ Alone(p) =>
                        \E id \in QueryEmail(store, Arg(p).email) :
                            store[id].otp = slot[p].sent[1][2]
            /\ (slot[p].pc = "done" /\ slot[p].result = R_STORE) => slot[p].sent = <<>>
            /\ (slot[p].pc = "done" /\ slot[p].result = R_OK) =>
                  slot[p].nops = 2 /\ Len(slot[p].sent) = 1

C21_Reached ==
    \E p \in Procs :
        /\ ChallengeDone(p)
        /\ slot[p].result = R_STORE
        /\ slot[p].nops = 2
        /\ slot[p].sent = <<>>

\* C22: updateAuthDataAfterSave reaches a fixpoint.  The hook never issues a
\* second save.  For a user with an email whose authData.otp.id differs from
\* it, the chain ends after one save and two calls of the hook, with
\* authData.otp.id and authData.otp.email equal to the email; for a user with
\* no email, or whose authData.otp.id is the email, the hook issues no save
\* and authData stays as it was.
C22_HookFixpoint ==
    /\ user.saves <= 1
    /\ user.email = user.first.email
    /\ user.event = "none" =>
          IF user.first.email # NoEmail /\ user.first.otp.id # user.first.email
          THEN /\ user.saves = 1
               /\ user.runs = 2
               /\ user.otp = [id |-> user.email, email |-> user.email]
          ELSE /\ user.saves = 0
               /\ user.runs <= 1
               /\ user.otp = user.first.otp

C22_Reached ==
    /\ user.event = "none"
    /\ user.saves = 1
    /\ user.runs = 2
    /\ user.first.otp.id # user.email
    /\ user.otp.id = user.email

====
